---- MODULE Spec2Model ----
(***************************************************************************)
(* Model of the API-key manager (auth.py) and of the rate-limit gate       *)
(* (main.py): the Redis key space holding the "apikey:<key>" records, the  *)
(* Firestore users collection, the wall clock, and one action per          *)
(* operation of the service.                                               *)
(***************************************************************************)
EXTENDS Integers, Sequences, FiniteSets, TLC

VARIABLES
    now,           \* int(time.time()): the wall clock, in seconds
    redis_client,  \* the Redis key space: name -> [value, ttl_at]
    db,            \* the Firestore collection 'users': user_id -> document
    generated,     \* the tokens secrets.token_urlsafe has produced so far
    issued,        \* history: the keys create_api_key has returned
    valid,         \* history: the issued keys neither revoked nor expired
    revoked,       \* history: the issued keys whose revoke has completed
    client,        \* the X-API-Key header the observed client sends
    admitted,      \* history: requests of the client served in this window
    rejected,      \* history: requests of the client refused in this window
    quotas,        \* history: the policies resolved for them in this window
    windows,       \* history: the 1-minute windows that have elapsed
    guard,         \* the requires_flags(required_flags, any_of) in force
    listing,       \* the list_user_api_keys call in progress, if any
    last           \* the last operation: its inputs and its outcome

vars == <<now, redis_client, db, generated, issued, valid, revoked, client,
          admitted, rejected, quotas, windows, guard, listing, last>>

-----------------------------------------------------------------------------
(* Bounds of the model. *)

MaxKeys == 2

MaxDays == 1

MaxSkew == 1

MaxTtlDays == 1

MaxFlags == 4

MaxStoredFlags == 2

MaxRequests == 11

MaxWindows == 1

MaxSetups == 1

MaxHeld == 3

-----------------------------------------------------------------------------
(* Values. *)

\* Python's None, as a header value, a key or a user id.
None == "None"

\* A day in seconds, as auth.py writes it: 24 * 60 * 60.
DaySeconds == 24 * 60 * 60

\* The rate limiter's window: RateLimiter(..., minutes=1).
WindowSeconds == 1 * 60

\* class UserFlag(str, Enum)
UserFlag == {"USER", "ELEVATED_USER", "ADMINISTRATOR", "SYSTEM_OPERATOR"}

\* The strings a stored flag list may hold: the four flags and one that is
\* no member of the enum.
FlagStrings == UserFlag \cup {"BOGUS"}

\* RateLimits.UNAUTHENTICATED_LIMIT
UNAUTHENTICATED_LIMIT == 10

\* RateLimits.FLAG_LIMITS.get(flag, default)
FLAG_LIMITS_get(flag, default) ==
    CASE flag = "USER" -> 100
      [] flag = "ELEVATED_USER" -> 2500
      [] flag = "ADMINISTRATOR" -> -1
      [] flag = "SYSTEM_OPERATOR" -> -1
      [] OTHER -> default

Users == {"u1", "u2"}

Tokens == {ToString(i) : i \in 1..MaxKeys}

\* api_key = f"key_{secrets.token_urlsafe(32)}"
ApiKeyOf(token) == "key_" \o token

ApiKeys == {ApiKeyOf(t) : t \in Tokens}

\* A key nobody generated, for requests that present an unknown key.
UnknownKey == "key_unknown"

TtlDays == 1..MaxTtlDays

\* The Redis name of a key's record: f"apikey:{api_key}"
RedisName(api_key) == "apikey:" \o api_key

\* json.dumps / json.loads of the key_data dictionary: the stored value is
\* the serialised triple, read back into a dictionary.
json_dumps(key_data) ==
    <<key_data.user_id, key_data.created_at, key_data.expires_at>>

json_loads(value) ==
    [user_id |-> value[1], created_at |-> value[2], expires_at |-> value[3]]

\* The empty Redis key space and the empty users collection.
Empty == [n \in {} |-> 0]

\* redis_client.delete(name): removing an absent name is no error.
RedisDelete(redis, name) == [n \in (DOMAIN redis) \ {name} |-> redis[n]]

\* redis_client.set(name, value, ex=seconds), executed at clock t.
RedisSet(redis, name, value, seconds, t) ==
    (name :> [value |-> value, ttl_at |-> t + seconds]) @@ redis

-----------------------------------------------------------------------------
(* auth.py: the API key manager. *)

\* Variant of create_api_key that hands the key back although the write
\* raised (the exception is swallowed instead of turned into HTTP 500).
create_api_key_swallowed(user_id, expires_in_days, token, t1, t2, write_ok) ==
    LET api_key == ApiKeyOf(token)
        key_data == [user_id |-> user_id,
                     created_at |-> t2,
                     expires_at |-> t1 + (expires_in_days * 24 * 60 * 60)]
    IN  [ret |-> api_key,
         exc |-> "none",
         redis |-> IF write_ok
                   THEN RedisSet(redis_client, RedisName(api_key),
                                 json_dumps(key_data),
                                 expires_in_days * 24 * 60 * 60, t2)
                   ELSE redis_client]

\* Variant of create_api_key that stores the record under the bare key,
\* without the "apikey:" prefix validate_api_key reads.
create_api_key_unprefixed(user_id, expires_in_days, token, t1, t2, write_ok) ==
    LET api_key == ApiKeyOf(token)
        key_data == [user_id |-> user_id,
                     created_at |-> t2,
                     expires_at |-> t1 + (expires_in_days * 24 * 60 * 60)]
    IN  IF write_ok
        THEN [ret |-> api_key,
              exc |-> "none",
              redis |-> RedisSet(redis_client, api_key,
                                 json_dumps(key_data),
                                 expires_in_days * 24 * 60 * 60, t2)]
        ELSE [ret |-> None,
              exc |-> "HTTPException 500",
              redis |-> redis_client]

\* create_api_key(user_id, expires_in_days), with the clock reading t1 at
\* line 65 and t2 at line 70; write_ok says whether redis_client.set
\* succeeded.  The result is what the caller gets (a key or HTTP 500) and
\* the key space afterwards.
create_api_key(user_id, expires_in_days, token, t1, t2, write_ok) ==
    LET api_key == ApiKeyOf(token)
        expires_at == t1 + (expires_in_days * 24 * 60 * 60)
        key_data == [user_id |-> user_id,
                     created_at |-> t2,
                     expires_at |-> expires_at]
    IN  IF write_ok
        THEN [ret |-> api_key,
              exc |-> "none",
              redis |-> RedisSet(redis_client, RedisName(api_key),
                                 json_dumps(key_data),
                                 expires_in_days * 24 * 60 * 60, t2)]
        ELSE [ret |-> None,
              exc |-> "HTTPException 500",
              redis |-> redis_client]

\* Variant of validate_api_key without the expiry check: a record still
\* stored validates whatever its expires_at.
validate_api_key_no_expiry(api_key, redis_up) ==
    IF api_key \in {None, ""}
    THEN [ret |-> None, exc |-> "none", redis |-> redis_client]
    ELSE IF ~redis_up
    THEN [ret |-> None, exc |-> "RedisError", redis |-> redis_client]
    ELSE IF RedisName(api_key) \notin DOMAIN redis_client
    THEN [ret |-> None, exc |-> "none", redis |-> redis_client]
    ELSE LET key_data == json_loads(redis_client[RedisName(api_key)].value)
         IN  [ret |-> key_data.user_id, exc |-> "none",
              redis |-> redis_client]

\* Variant of validate_api_key that deletes a record as soon as the clock
\* reaches its expires_at.
validate_api_key_eager(api_key, redis_up) ==
    IF api_key \in {None, ""}
    THEN [ret |-> None, exc |-> "none", redis |-> redis_client]
    ELSE IF ~redis_up
    THEN [ret |-> None, exc |-> "RedisError", redis |-> redis_client]
    ELSE IF RedisName(api_key) \notin DOMAIN redis_client
    THEN [ret |-> None, exc |-> "none", redis |-> redis_client]
    ELSE LET key_data == json_loads(redis_client[RedisName(api_key)].value)
         IN  IF now >= key_data.expires_at
             THEN [ret |-> None, exc |-> "none",
                   redis |-> RedisDelete(redis_client, RedisName(api_key))]
             ELSE [ret |-> key_data.user_id, exc |-> "none",
                   redis |-> redis_client]

\* Variant of validate_api_key that reports an expired key absent without
\* deleting its record.
validate_api_key_no_cleanup(api_key, redis_up) ==
    IF api_key \in {None, ""}
    THEN [ret |-> None, exc |-> "none", redis |-> redis_client]
    ELSE IF ~redis_up
    THEN [ret |-> None, exc |-> "RedisError", redis |-> redis_client]
    ELSE IF RedisName(api_key) \notin DOMAIN redis_client
    THEN [ret |-> None, exc |-> "none", redis |-> redis_client]
    ELSE LET key_data == json_loads(redis_client[RedisName(api_key)].value)
         IN  IF now > key_data.expires_at
             THEN [ret |-> None, exc |-> "none", redis |-> redis_client]
             ELSE [ret |-> key_data.user_id, exc |-> "none",
                   redis |-> redis_client]

\* validate_api_key(api_key); redis_up says whether the Redis calls of this
\* call succeed (otherwise the first of them raises).
validate_api_key(api_key, redis_up) ==
    IF api_key \in {None, ""}
    THEN [ret |-> None, exc |-> "none", redis |-> redis_client]
    ELSE IF ~redis_up
    THEN [ret |-> None, exc |-> "RedisError", redis |-> redis_client]
    ELSE IF RedisName(api_key) \notin DOMAIN redis_client
    THEN [ret |-> None, exc |-> "none", redis |-> redis_client]
    ELSE LET key_data == json_loads(redis_client[RedisName(api_key)].value)
         IN  IF now > key_data.expires_at
             THEN [ret |-> None, exc |-> "none",
                   redis |-> RedisDelete(redis_client, RedisName(api_key))]
             ELSE [ret |-> key_data.user_id, exc |-> "none",
                   redis |-> redis_client]

\* Variant of revoke_api_key that deletes the bare key, not "apikey:<key>".
revoke_api_key_unprefixed(api_key, redis_up) ==
    IF redis_up
    THEN [exc |-> "none", redis |-> RedisDelete(redis_client, api_key)]
    ELSE [exc |-> "RedisError", redis |-> redis_client]

\* revoke_api_key(api_key)
revoke_api_key(api_key, redis_up) ==
    IF redis_up
    THEN [exc |-> "none",
          redis |-> RedisDelete(redis_client, RedisName(api_key))]
    ELSE [exc |-> "RedisError", redis |-> redis_client]

\* key.split(":", 1)[1]: the key whose record is stored under a name.
KeyOfName(name) ==
    CHOOSE api_key \in ApiKeys \cup {UnknownKey} : RedisName(api_key) = name

\* Variant of the loop body of list_user_api_keys without the test
\* "if key_data:": json.loads(None) raises TypeError.
list_user_api_keys_unchecked(user_id, key, keys) ==
    IF key \notin DOMAIN redis_client
    THEN [keys |-> keys, exc |-> "TypeError", skipped |-> FALSE]
    ELSE LET key_data == json_loads(redis_client[key].value)
         IN  IF key_data.user_id = user_id
             THEN [keys |-> keys \cup {[key |-> KeyOfName(key),
                                        user_id |-> key_data.user_id,
                                        created_at |-> key_data.created_at,
                                        expires_at |-> key_data.expires_at]},
                   exc |-> "none", skipped |-> FALSE]
             ELSE [keys |-> keys, exc |-> "none", skipped |-> FALSE]

\* The loop body of list_user_api_keys(user_id) for the name key that
\* scan_iter has yielded: the record is read now, and a name whose record
\* is gone by now is skipped.  keys is the list built so far, kept as the
\* set of its items.
list_user_api_keys(user_id, key, keys) ==
    IF key \notin DOMAIN redis_client
    THEN [keys |-> keys, exc |-> "none", skipped |-> TRUE]
    ELSE LET key_data == json_loads(redis_client[key].value)
         IN  IF key_data.user_id = user_id
             THEN [keys |-> keys \cup {[key |-> KeyOfName(key),
                                        user_id |-> key_data.user_id,
                                        created_at |-> key_data.created_at,
                                        expires_at |-> key_data.expires_at]},
                   exc |-> "none", skipped |-> FALSE]
             ELSE [keys |-> keys, exc |-> "none", skipped |-> FALSE]

\* get_api_key(request): the X-API-Key header, None when it is missing or
\* empty.
get_api_key(header) ==
    IF header \in {None, ""} THEN None ELSE header

\* UserFlag(flag): the enum's constructor accepts the four values and
\* raises ValueError for any other string.
UserFlagAccepts(flag) == flag \in UserFlag

\* Variant of get_user_flags that reads user_data['flags'] and so raises
\* KeyError for a document without the attribute.
get_user_flags_strict(api_key, redis_up, db_up) ==
    IF api_key \in {None, ""}
    THEN [flags |-> <<>>, exc |-> "none", redis |-> redis_client,
          calls |-> {}]
    ELSE LET v == validate_api_key(api_key, redis_up)
         IN  IF v.exc # "none"
             THEN [flags |-> <<>>, exc |-> v.exc, redis |-> v.redis,
                   calls |-> {"redis"}]
             ELSE IF v.ret = None
             THEN [flags |-> <<>>, exc |-> "none", redis |-> v.redis,
                   calls |-> {"redis"}]
             ELSE IF ~db_up
             THEN [flags |-> <<>>, exc |-> "FirestoreError",
                   redis |-> v.redis, calls |-> {"redis", "firestore"}]
             ELSE IF v.ret \notin DOMAIN db
             THEN [flags |-> <<>>, exc |-> "none", redis |-> v.redis,
                   calls |-> {"redis", "firestore"}]
             ELSE LET user_data == db[v.ret]
                  IN  IF "flags" \notin DOMAIN user_data
                      THEN [flags |-> <<>>, exc |-> "KeyError",
                            redis |-> v.redis,
                            calls |-> {"redis", "firestore"}]
                      ELSE IF \E i \in 1..Len(user_data.flags) :
                                 ~UserFlagAccepts(user_data.flags[i])
                      THEN [flags |-> <<>>, exc |-> "ValueError",
                            redis |-> v.redis,
                            calls |-> {"redis", "firestore"}]
                      ELSE [flags |-> user_data.flags, exc |-> "none",
                            redis |-> v.redis,
                            calls |-> {"redis", "firestore"}]

\* get_user_flags(api_key); db_up says whether the Firestore read succeeds.
\* calls names the backends the call consulted.
get_user_flags(api_key, redis_up, db_up) ==
    IF api_key \in {None, ""}
    THEN [flags |-> <<>>, exc |-> "none", redis |-> redis_client,
          calls |-> {}]
    ELSE LET v == validate_api_key(api_key, redis_up)
         IN  IF v.exc # "none"
             THEN [flags |-> <<>>, exc |-> v.exc, redis |-> v.redis,
                   calls |-> {"redis"}]
             ELSE IF v.ret = None
             THEN [flags |-> <<>>, exc |-> "none", redis |-> v.redis,
                   calls |-> {"redis"}]
             ELSE IF ~db_up
             THEN [flags |-> <<>>, exc |-> "FirestoreError",
                   redis |-> v.redis, calls |-> {"redis", "firestore"}]
             ELSE IF v.ret \notin DOMAIN db
             THEN [flags |-> <<>>, exc |-> "none", redis |-> v.redis,
                   calls |-> {"redis", "firestore"}]
             ELSE LET user_data == db[v.ret]
                      stored == IF "flags" \in DOMAIN user_data
                                THEN user_data.flags
                                ELSE <<>>
                  IN  IF \E i \in 1..Len(stored) : ~UserFlagAccepts(stored[i])
                      THEN [flags |-> <<>>, exc |-> "ValueError",
                            redis |-> v.redis,
                            calls |-> {"redis", "firestore"}]
                      ELSE [flags |-> stored, exc |-> "none",
                            redis |-> v.redis,
                            calls |-> {"redis", "firestore"}]

-----------------------------------------------------------------------------
(* main.py: the rate-limit gate. *)

\* The policy get_rate_limit returns: None (unlimited), or
\* RateLimiter(times=..., minutes=...).
NoLimiter == [kind |-> "None"]

RateLimiter(times, minutes) ==
    [kind |-> "RateLimiter", times |-> times, minutes |-> minutes]

\* Python's max of two integers.
max(a, b) == IF a >= b THEN a ELSE b

\* Variant of the loop that adds the flags' limits up.
RECURSIVE rate_limit_loop_sum(_, _, _)
rate_limit_loop_sum(user_flags, i, rate_limit) ==
    IF i > Len(user_flags)
    THEN RateLimiter(rate_limit, 1)
    ELSE LET flag_limit == FLAG_LIMITS_get(user_flags[i], 0)
         IN  IF flag_limit = -1
             THEN NoLimiter
             ELSE rate_limit_loop_sum(user_flags, i + 1,
                                      rate_limit + flag_limit)

\* Variant of the loop that keeps the limit of the last flag, not the
\* highest one.
RECURSIVE rate_limit_loop_overwrite(_, _, _)
rate_limit_loop_overwrite(user_flags, i, rate_limit) ==
    IF i > Len(user_flags)
    THEN RateLimiter(rate_limit, 1)
    ELSE LET flag_limit == FLAG_LIMITS_get(user_flags[i], 0)
         IN  IF flag_limit = -1
             THEN NoLimiter
             ELSE rate_limit_loop_overwrite(user_flags, i + 1, flag_limit)

\* The loop of get_rate_limit over user_flags, from its i-th element on,
\* with rate_limit the highest limit seen so far.
RECURSIVE rate_limit_loop(_, _, _)
rate_limit_loop(user_flags, i, rate_limit) ==
    IF i > Len(user_flags)
    THEN RateLimiter(rate_limit, 1)
    ELSE LET flag_limit == FLAG_LIMITS_get(user_flags[i], 0)
         IN  IF flag_limit = -1
             THEN NoLimiter
             ELSE rate_limit_loop(user_flags, i + 1,
                                  max(rate_limit, flag_limit))

\* Variant of get_rate_limit that returns None (no limiter) on an error.
get_rate_limit_fail_open(header, redis_up, db_up) ==
    LET f == get_user_flags(get_api_key(header), redis_up, db_up)
    IN  IF f.exc # "none"
        THEN [policy |-> NoLimiter, exc |-> "none", caught |-> f.exc,
              redis |-> f.redis, calls |-> f.calls]
        ELSE [policy |-> rate_limit_loop(f.flags, 1, UNAUTHENTICATED_LIMIT),
              exc |-> "none", caught |-> "none",
              redis |-> f.redis, calls |-> f.calls]

\* Variant of get_rate_limit without the try/except: an error propagates.
get_rate_limit_no_catch(header, redis_up, db_up) ==
    LET f == get_user_flags(get_api_key(header), redis_up, db_up)
    IN  IF f.exc # "none"
        THEN [policy |-> NoLimiter, exc |-> f.exc, caught |-> "none",
              redis |-> f.redis, calls |-> f.calls]
        ELSE [policy |-> rate_limit_loop(f.flags, 1, UNAUTHENTICATED_LIMIT),
              exc |-> "none", caught |-> "none",
              redis |-> f.redis, calls |-> f.calls]

\* Variant of get_rate_limit whose running maximum starts at 0.
get_rate_limit_from_zero(header, redis_up, db_up) ==
    LET f == get_user_flags(get_api_key(header), redis_up, db_up)
    IN  IF f.exc # "none"
        THEN [policy |-> RateLimiter(UNAUTHENTICATED_LIMIT, 1),
              exc |-> "none", caught |-> f.exc,
              redis |-> f.redis, calls |-> f.calls]
        ELSE [policy |-> rate_limit_loop(f.flags, 1, 0),
              exc |-> "none", caught |-> "none",
              redis |-> f.redis, calls |-> f.calls]

\* get_rate_limit(request): the policy it returns, the exception it lets
\* through (none: every Exception is caught), the one it caught, the key
\* space afterwards and the backends it consulted.
get_rate_limit(header, redis_up, db_up) ==
    LET api_key == get_api_key(header)
        f == get_user_flags(api_key, redis_up, db_up)
    IN  IF f.exc # "none"
        THEN [policy |-> RateLimiter(UNAUTHENTICATED_LIMIT, 1),
              exc |-> "none", caught |-> f.exc,
              redis |-> f.redis, calls |-> f.calls]
        ELSE [policy |-> rate_limit_loop(f.flags, 1, UNAUTHENTICATED_LIMIT),
              exc |-> "none", caught |-> "none",
              redis |-> f.redis, calls |-> f.calls]

\* A route declared with _=Depends(get_rate_limit) (read_root, echo_message,
\* format_number, unformat_number, webhook): FastAPI calls get_rate_limit,
\* binds what it returns to the parameter _, and runs the handler.  The
\* returned RateLimiter is never called, so no request is counted or
\* refused: the response is 200 unless the dependency raised.
read_root(header, redis_up, db_up) ==
    LET r == get_rate_limit(header, redis_up, db_up)
    IN  [status |-> IF r.exc = "none" THEN 200 ELSE 500,
         policy |-> r.policy, caught |-> r.caught,
         redis |-> r.redis, calls |-> r.calls]

\* flag in user_flags
InList(flag, user_flags) ==
    \E i \in 1..Len(user_flags) : user_flags[i] = flag

\* Variant of requires_flags with the two match modes exchanged.
requires_flags_swapped(required_flags, any_of, header, redis_up, db_up) ==
    LET f == get_user_flags(get_api_key(header), redis_up, db_up)
        denied == IF any_of
                  THEN ~(\A flag \in required_flags : InList(flag, f.flags))
                  ELSE ~(\E flag \in required_flags : InList(flag, f.flags))
    IN  IF f.exc # "none"
        THEN [status |-> 500, ran |-> FALSE, exc |-> f.exc,
              redis |-> f.redis]
        ELSE IF denied
        THEN [status |-> 403, ran |-> FALSE, exc |-> "none",
              redis |-> f.redis]
        ELSE [status |-> 200, ran |-> TRUE, exc |-> "none",
              redis |-> f.redis]

\* requires_flags(required_flags, any_of) around a handler: the wrapper's
\* outcome for a request with the given header.  An exception of
\* get_user_flags propagates (HTTP 500); a failed check raises HTTP 403;
\* otherwise the handler runs.
requires_flags(required_flags, any_of, header, redis_up, db_up) ==
    LET api_key == get_api_key(header)
        f == get_user_flags(api_key, redis_up, db_up)
        denied == IF any_of
                  THEN ~(\E flag \in required_flags : InList(flag, f.flags))
                  ELSE ~(\A flag \in required_flags : InList(flag, f.flags))
    IN  IF f.exc # "none"
        THEN [status |-> 500, ran |-> FALSE, exc |-> f.exc,
              redis |-> f.redis]
        ELSE IF denied
        THEN [status |-> 403, ran |-> FALSE, exc |-> "none",
              redis |-> f.redis]
        ELSE [status |-> 200, ran |-> TRUE, exc |-> "none",
              redis |-> f.redis]

\* The test_users of setup_test_data, their flags as the strings it stores.
test_users ==
    << [id |-> "test_user", email |-> "test@example.com",
        flags |-> <<"USER">>],
       [id |-> "test_elevated", email |-> "elevated@example.com",
        flags |-> <<"USER", "ELEVATED_USER">>],
       [id |-> "test_admin", email |-> "admin@example.com",
        flags |-> <<"USER", "ADMINISTRATOR">>],
       [id |-> "test_sysop", email |-> "sysop@example.com",
        flags |-> <<"USER", "SYSTEM_OPERATOR">>] >>

\* The loop of setup_test_data from its i-th user on: the document is set,
\* then create_api_key(user['id'], expires_in_days=365) is called with the
\* next token.  acc holds the users collection, the key space and the
\* api_keys so far; the backend call named by fail_in fails in iteration
\* fail_at (0: none fails) and ends the request with HTTP 500.
RECURSIVE setup_test_data_loop(_, _, _, _, _, _)
setup_test_data_loop(i, first, t, fail_at, fail_in, acc) ==
    IF i > Len(test_users)
    THEN [status |-> 200, db |-> acc.db, redis |-> acc.redis,
          api_keys |-> acc.api_keys]
    ELSE IF fail_at = i /\ fail_in = "firestore"
    THEN [status |-> 500, db |-> acc.db, redis |-> acc.redis,
          api_keys |-> acc.api_keys]
    ELSE LET user == test_users[i]
             written == (user.id :> [email |-> user.email,
                                     flags |-> user.flags]) @@ acc.db
             r == create_api_key(user.id, 365, ToString(first + i - 1),
                                 t, t, ~(fail_at = i /\ fail_in = "redis"))
         IN  IF r.exc # "none"
             THEN [status |-> 500, db |-> written, redis |-> acc.redis,
                   api_keys |-> acc.api_keys]
             ELSE setup_test_data_loop(
                      i + 1, first, t, fail_at, fail_in,
                      [db |-> written,
                       redis |-> (RedisName(r.ret) :>
                                    r.redis[RedisName(r.ret)]) @@ acc.redis,
                       api_keys |-> Append(acc.api_keys, r.ret)])

\* POST /setup-test-data, served at clock t, first being the number of the
\* next token: the response status, the users collection and the key space
\* afterwards, and the keys create_api_key returned.
setup_test_data(first, t, fail_at, fail_in) ==
    setup_test_data_loop(1, first, t, fail_at, fail_in,
                         [db |-> db, redis |-> redis_client,
                          api_keys |-> <<>>])

\* POST /create-test-users: the handler calls create_api_key() without the
\* required user_id, so the call raises TypeError before anything is read
\* or written, and the request ends with HTTP 500.
create_test_users_endpoint ==
    [status |-> 500, exc |-> "TypeError", db |-> db, redis |-> redis_client]

-----------------------------------------------------------------------------
(* rate_limit.py: the second policy resolver. *)

\* The loop of dynamic_rate_limit over user_flags, from its i-th element
\* on, with rate_limit the highest limit seen so far.
RECURSIVE dynamic_rate_limit_loop(_, _, _)
dynamic_rate_limit_loop(user_flags, i, rate_limit) ==
    IF i > Len(user_flags)
    THEN RateLimiter(rate_limit, 1)
    ELSE LET flag_limit == FLAG_LIMITS_get(user_flags[i], 0)
         IN  IF flag_limit = -1
             THEN NoLimiter
             ELSE dynamic_rate_limit_loop(user_flags, i + 1,
                                          max(rate_limit, flag_limit))

\* dynamic_rate_limit(request): it reads the header itself and has no
\* try/except, so an exception of get_user_flags propagates and no policy
\* is returned.
dynamic_rate_limit(header, redis_up, db_up) ==
    LET api_key == header
        f == get_user_flags(api_key, redis_up, db_up)
    IN  IF f.exc # "none"
        THEN [policy |-> [kind |-> "raised"], exc |-> f.exc,
              redis |-> f.redis, calls |-> f.calls]
        ELSE IF Len(f.flags) = 0
        THEN [policy |-> RateLimiter(UNAUTHENTICATED_LIMIT, 1),
              exc |-> "none", redis |-> f.redis, calls |-> f.calls]
        ELSE [policy |-> dynamic_rate_limit_loop(f.flags, 1,
                                                 UNAUTHENTICATED_LIMIT),
              exc |-> "none", redis |-> f.redis, calls |-> f.calls]

-----------------------------------------------------------------------------

(* The observation of the last operation. *)

\* What a Redis read of an absent name is recorded as.
NoEntry == [value |-> <<None, 0, 0>>, ttl_at |-> 0]

\* The entry Redis holds under a name, NoEntry when it holds none.
EntryAt(name) ==
    IF name \in DOMAIN redis_client THEN redis_client[name] ELSE NoEntry

Idle(op) ==
    [op |-> op, arg |-> None, token |-> None, days |-> 0,
     ret |-> None, exc |-> "none", had |-> FALSE, entry |-> NoEntry]

\* The entries of v whose expiry lies after time t.
Unexpired(v, t) ==
    [k \in {x \in DOMAIN v : v[x].expiry > t} |-> v[k]]

\* v without the entry of key k.
Without(v, k) == [x \in (DOMAIN v) \ {k} |-> v[x]]

\* No handler is wrapped: requires_flags([], any_of=False).
NoGuard == [required |-> {}, any_of |-> FALSE]

\* The list_user_api_keys call in progress: none.
NoListing == [pc |-> "idle"]

Init ==
    /\ now = 0
    /\ redis_client = Empty
    /\ db = Empty
    /\ generated = {}
    /\ issued = {}
    /\ valid = Empty
    /\ revoked = {}
    /\ client = None
    /\ admitted = 0
    /\ rejected = 0
    /\ quotas = {}
    /\ windows = 0
    /\ guard = NoGuard
    /\ listing = NoListing
    /\ last = Idle("init")

\* The clock may advance by d seconds within the skew the model allows.
SkewOk(d) == (now % DaySeconds) + d <= MaxSkew

\* Variant of the token generator that returns the same token every time.
NextToken_repeated == ToString(1)

\* secrets.token_urlsafe(32) returns a token it never returned before; the
\* tokens are named in the order of their generation.
NextToken == ToString(Cardinality(generated) + 1)

\* create_api_key(user_id, expires_in_days).  The clock may advance by d
\* between the two time.time() calls of the function.
CreateApiKey(user_id, expires_in_days, token, d, write_ok) ==
    /\ token = NextToken
    /\ SkewOk(d)
    /\ LET r == create_api_key(user_id, expires_in_days, token,
                               now, now + d, write_ok)
       IN  /\ redis_client' = r.redis
           /\ issued' = IF r.exc = "none" THEN issued \cup {r.ret} ELSE issued
           /\ valid' =
                 Unexpired(IF r.exc = "none"
                           THEN (r.ret :>
                                   [user_id |-> user_id,
                                    expiry |-> (now + d)
                                                 + expires_in_days * 86400])
                                @@ valid
                           ELSE valid,
                           now + d)
           /\ last' = [op |-> "create", arg |-> user_id, token |-> token,
                       days |-> expires_in_days, ret |-> r.ret,
                       exc |-> r.exc, had |-> FALSE, entry |-> NoEntry]
    /\ now' = now + d
    /\ generated' = generated \cup {token}
    /\ UNCHANGED <<db, revoked, client, admitted, rejected, quotas, windows,
                   guard, listing>>

ValidateApiKey(api_key, redis_up) ==
    /\ LET r == validate_api_key(api_key, redis_up)
       IN  /\ redis_client' = r.redis
           /\ last' = [op |-> "validate", arg |-> api_key, token |-> None,
                       days |-> 0, ret |-> r.ret, exc |-> r.exc,
                       had |-> RedisName(api_key) \in DOMAIN redis_client,
                       entry |-> EntryAt(RedisName(api_key))]
    /\ UNCHANGED <<now, db, generated, issued, valid, revoked, client, admitted,
                   rejected, quotas, windows, guard, listing>>

RevokeApiKey(api_key, redis_up) ==
    /\ LET r == revoke_api_key(api_key, redis_up)
       IN  /\ redis_client' = r.redis
           /\ revoked' = IF r.exc = "none"
                         THEN revoked \cup ({api_key} \cap issued)
                         ELSE revoked
           /\ valid' = IF r.exc = "none" THEN Without(valid, api_key) ELSE valid
           /\ last' = [op |-> "revoke", arg |-> api_key, token |-> None,
                       days |-> 0, ret |-> None, exc |-> r.exc,
                       had |-> RedisName(api_key) \in DOMAIN redis_client,
                       entry |-> EntryAt(RedisName(api_key))]
    /\ UNCHANGED <<now, db, generated, issued, client, admitted, rejected,
                   quotas, windows, guard, listing>>

\* Redis evicts a record whose time to live has elapsed.  Its clock and the
\* service's need not agree to the second, so eviction may come late.
Evict(name) ==
    /\ name \in DOMAIN redis_client
    /\ now >= redis_client[name].ttl_at
    /\ redis_client' = RedisDelete(redis_client, name)
    /\ last' = Idle("evict")
    /\ UNCHANGED <<now, db, generated, issued, valid, revoked, client, admitted,
                   rejected, quotas, windows, guard, listing>>

\* Time passes: a second, or a day.
Tick(d) ==
    /\ \/ d = 1 /\ SkewOk(1)
       \/ d = DaySeconds /\ now \div DaySeconds < MaxDays
    /\ now' = now + d
    /\ valid' = Unexpired(valid, now + d)
    /\ last' = Idle("tick")
    /\ UNCHANGED <<redis_client, db, generated, issued, revoked, client,
                   admitted, rejected, quotas, windows, guard, listing>>

\* The keys a caller may present: the generated ones, and one that never is
\* generated (a token of 32 random bytes is not guessed before it exists).
PresentedKeys == {ApiKeyOf(t) : t \in generated} \cup {UnknownKey}

Next ==
    \/ \E u \in Users, t \in TtlDays, tok \in Tokens, d \in {0, 1},
          ok \in BOOLEAN :
          CreateApiKey(u, t, tok, d, ok)
    \/ \E k \in PresentedKeys \cup {None} : ValidateApiKey(k, TRUE)
    \/ \E k \in PresentedKeys : RevokeApiKey(k, TRUE)
    \/ \E k \in ApiKeys : Evict(RedisName(k))
    \/ \E d \in {1, DaySeconds} : Tick(d)

Spec == Init /\ [][Next]_vars

\* The record Redis holds for a key, read as validate_api_key reads it.
RecordOf(api_key) == json_loads(redis_client[RedisName(api_key)].value)

HasRecord(api_key) == RedisName(api_key) \in DOMAIN redis_client

-----------------------------------------------------------------------------
(* Requests through the gate. *)

\* The X-API-Key headers a request may carry: none, an empty one, the key
\* of token 1, and a key that was never issued.
Headers == {None, "", ApiKeyOf("1"), UnknownKey}

\* The sequences over S of length at most n.
SeqUpTo(S, n) == UNION {[1..k -> S] : k \in 0..n}

\* The documents the users collection may hold for a user: with a flags
\* list, or without the attribute.
Docs ==
    {[email |-> "u@example.com"]}
        \cup {[email |-> "u@example.com", flags |-> f] :
                f \in SeqUpTo(FlagStrings, MaxStoredFlags)}

\* The required_flags the guard is declared with.
RequiredSets == {{}, {"USER"}, {"ADMINISTRATOR"}, {"USER", "ADMINISTRATOR"}}

\* A request to a route that depends on get_rate_limit.
Serve(header, redis_up, db_up) ==
    LET r == read_root(header, redis_up, db_up)
    IN  /\ redis_client' = r.redis
        /\ last' = [op |-> "route", arg |-> header, redis_up |-> redis_up,
                    db_up |-> db_up, status |-> r.status,
                    policy |-> r.policy, caught |-> r.caught,
                    calls |-> r.calls]

GateRequest(header, redis_up, db_up) ==
    /\ Serve(header, redis_up, db_up)
    /\ UNCHANGED <<now, db, generated, issued, valid, revoked, client, admitted,
                   rejected, quotas, windows, guard, listing>>

\* A request to the handler wrapped by requires_flags(required_flags,
\* any_of), the decorator's arguments being those fixed at its declaration.
GuardedRequest(header, redis_up, db_up) ==
    /\ LET r == requires_flags(guard.required, guard.any_of, header,
                               redis_up, db_up)
       IN  /\ redis_client' = r.redis
           /\ last' = [op |-> "guard", arg |-> header,
                       redis_up |-> redis_up, db_up |-> db_up,
                       status |-> r.status, ran |-> r.ran, exc |-> r.exc]
    /\ UNCHANGED <<now, db, generated, issued, valid, revoked, client, admitted,
                   rejected, quotas, windows, guard, listing>>

\* A request of the observed client to a rate-limited route; the counts
\* follow the response: 200 is an admission, 429 a refusal.
ClientRequest(redis_up, db_up) ==
    /\ admitted + rejected < MaxRequests
    /\ Serve(client, redis_up, db_up)
    /\ admitted' = IF last'.status = 200 THEN admitted + 1 ELSE admitted
    /\ rejected' = IF last'.status = 429 THEN rejected + 1 ELSE rejected
    /\ quotas' = quotas \cup {last'.policy}
    /\ UNCHANGED <<now, db, generated, issued, valid, revoked, client, windows,
                   guard, listing>>

\* The 1-minute window of the limiter ends and the next one starts.
WindowTick ==
    /\ windows < MaxWindows
    /\ now' = now + WindowSeconds
    /\ windows' = windows + 1
    /\ admitted' = 0
    /\ rejected' = 0
    /\ quotas' = {}
    /\ valid' = Unexpired(valid, now + WindowSeconds)
    /\ last' = Idle("tick")
    /\ UNCHANGED <<redis_client, db, generated, issued, revoked, client,
                   guard, listing>>

\* The states the requests start from: no key was ever issued, or
\* create_api_key("u1", 1) returned the key of token 1 at time 0; the users
\* collection is empty or holds one document for u1.
GateState ==
    /\ now = 0
    /\ \E stored \in BOOLEAN :
          IF stored
          THEN /\ redis_client =
                     RedisSet(Empty, RedisName(ApiKeyOf("1")),
                              json_dumps([user_id |-> "u1", created_at |-> 0,
                                          expires_at |-> 1 * 24 * 60 * 60]),
                              1 * 24 * 60 * 60, 0)
               /\ generated = {"1"}
               /\ issued = {ApiKeyOf("1")}
               /\ valid = (ApiKeyOf("1") :>
                             [user_id |-> "u1", expiry |-> 1 * 86400])
          ELSE /\ redis_client = Empty
               /\ generated = {}
               /\ issued = {}
               /\ valid = Empty
    /\ revoked = {}
    /\ admitted = 0
    /\ rejected = 0
    /\ quotas = {}
    /\ windows = 0
    /\ listing = NoListing
    /\ last = Idle("init")

InitGate ==
    /\ GateState
    /\ db \in {Empty} \cup {("u1" :> doc) : doc \in Docs}
    /\ client = None
    /\ guard = NoGuard

NextGate ==
    \/ \E h \in Headers, ru \in BOOLEAN, du \in BOOLEAN :
          GateRequest(h, ru, du)
    \/ \E k \in ApiKeys : Evict(RedisName(k))
    \/ \E d \in {1, DaySeconds} : Tick(d)

SpecGate == InitGate /\ [][NextGate]_vars

\* Requests to a guarded handler, for each declaration of the guard.
InitGuard ==
    /\ GateState
    /\ db \in {Empty} \cup {("u1" :> doc) : doc \in Docs}
    /\ client = None
    /\ guard \in [required : RequiredSets, any_of : BOOLEAN]

NextGuard ==
    \/ \E h \in Headers, ru \in BOOLEAN, du \in BOOLEAN :
          GuardedRequest(h, ru, du)
    \/ \E k \in ApiKeys : Evict(RedisName(k))
    \/ \E d \in {1, DaySeconds} : Tick(d)

SpecGuard == InitGuard /\ [][NextGuard]_vars

InitQuota ==
    /\ GateState
    /\ db \in {Empty} \cup {("u1" :> doc) : doc \in Docs}
    /\ client \in Headers
    /\ guard = NoGuard

NextQuota ==
    \/ \E ru \in BOOLEAN, du \in BOOLEAN : ClientRequest(ru, du)
    \/ WindowTick

SpecQuota == InitQuota /\ [][NextQuota]_vars

\* Policy resolution alone: u1 holds the key of token 1 and any list of
\* flags; the request presents that key and no backend call fails.
InitResolve ==
    /\ GateState
    /\ HasRecord(ApiKeyOf("1"))
    /\ db \in {("u1" :> [email |-> "u@example.com", flags |-> f]) :
                 f \in SeqUpTo(UserFlag, MaxFlags)}
    /\ client = None
    /\ guard = NoGuard

NextResolve == GateRequest(ApiKeyOf("1"), TRUE, TRUE)

SpecResolve == InitResolve /\ [][NextResolve]_vars

\* A call of get_user_flags(api_key) on its own.
FlagLookup(api_key, redis_up, db_up) ==
    /\ LET f == get_user_flags(api_key, redis_up, db_up)
       IN  /\ redis_client' = f.redis
           /\ last' = [op |-> "flags", arg |-> api_key,
                       redis_up |-> redis_up, db_up |-> db_up,
                       flags |-> f.flags, exc |-> f.exc, calls |-> f.calls]
    /\ UNCHANGED <<now, db, generated, issued, valid, revoked, client, admitted,
                   rejected, quotas, windows, guard, listing>>

\* The same request resolved by get_rate_limit and by dynamic_rate_limit,
\* no backend call failing.  Both make the same Redis calls.
CompareResolvers(header) ==
    /\ LET a == get_rate_limit(header, TRUE, TRUE)
           b == dynamic_rate_limit(header, TRUE, TRUE)
       IN  /\ redis_client' = a.redis
           /\ last' = [op |-> "resolvers", arg |-> header,
                       redis_up |-> TRUE, db_up |-> TRUE,
                       main |-> a.policy, rate_limit |-> b.policy]
    /\ UNCHANGED <<now, db, generated, issued, valid, revoked, client, admitted,
                   rejected, quotas, windows, guard, listing>>

\* Keys that are issued, revoked, expired and evicted, and the lookups made
\* with them while both backends answer: validate_api_key, get_user_flags,
\* the routes and the two resolvers.
InitLookup ==
    /\ GateState
    /\ db \in {Empty} \cup {("u1" :> doc) : doc \in Docs}
    /\ client = None
    /\ guard = NoGuard

NextLookup ==
    \/ \E h \in Headers : GateRequest(h, TRUE, TRUE)
    \/ \E h \in Headers : FlagLookup(h, TRUE, TRUE)
    \/ \E h \in Headers : CompareResolvers(h)
    \/ \E k \in Headers : ValidateApiKey(k, TRUE)
    \/ \E k \in Headers \ {None, ""} : RevokeApiKey(k, TRUE)
    \/ \E k \in ApiKeys : Evict(RedisName(k))
    \/ \E d \in {1, DaySeconds} : Tick(d)

SpecLookup == InitLookup /\ [][NextLookup]_vars

\* POST /setup-test-data.  The keys it obtained from create_api_key count
\* as issued, also when a later iteration fails.
SetupTestData(fail_at, fail_in) ==
    /\ Cardinality(generated) <= (MaxSetups - 1) * Len(test_users)
    /\ LET first == Cardinality(generated) + 1
           r == setup_test_data(first, now, fail_at, fail_in)
           created == {r.api_keys[i] : i \in 1..Len(r.api_keys)}
           drawn == IF r.status = 200 \/ fail_in = "redis"
                    THEN Len(r.api_keys) + (IF r.status = 200 THEN 0 ELSE 1)
                    ELSE Len(r.api_keys)
       IN  /\ db' = r.db
           /\ redis_client' = r.redis
           /\ generated' =
                 generated \cup {ToString(first + i - 1) : i \in 1..drawn}
           /\ issued' = issued \cup created
           /\ valid' = [k \in created |->
                          [user_id |-> json_loads(r.redis[RedisName(k)].value)
                                          .user_id,
                           expiry |-> r.redis[RedisName(k)].ttl_at]]
                       @@ valid
           /\ last' = [op |-> "setup", arg |-> None, status |-> r.status,
                       api_keys |-> IF r.status = 200
                                    THEN r.api_keys ELSE <<>>]
    /\ UNCHANGED <<now, revoked, client, admitted, rejected, quotas, windows,
                   guard, listing>>

\* POST /create-test-users.
CreateTestUsersEndpoint ==
    /\ LET r == create_test_users_endpoint
       IN  /\ db' = r.db
           /\ redis_client' = r.redis
           /\ last' = [op |-> "create-test-users", arg |-> None,
                       status |-> r.status, exc |-> r.exc]
    /\ UNCHANGED <<now, generated, issued, valid, revoked, client, admitted,
                   rejected, quotas, windows, guard, listing>>

\* The documents the users collection may hold before the test-data
\* endpoints are called: none, or one of a test user with other flags.
InitAdmin ==
    /\ now = 0
    /\ redis_client = Empty
    /\ db \in {Empty,
               ("test_admin" :> [email |-> "admin@example.com",
                                 flags |-> <<"USER">>]),
               ("test_user" :> [email |-> "test@example.com",
                                flags |-> <<"USER", "ELEVATED_USER">>])}
    /\ generated = {}
    /\ issued = {}
    /\ valid = Empty
    /\ revoked = {}
    /\ client = None
    /\ admitted = 0
    /\ rejected = 0
    /\ quotas = {}
    /\ windows = 0
    /\ guard = NoGuard
    /\ listing = NoListing
    /\ last = Idle("init")

\* The keys of the tokens generated so far, and no key.
AdminHeaders == {ApiKeyOf(t) : t \in generated} \cup {None}

\* The test-data endpoints of main.py, and requests, flag lookups and
\* revocations with the keys they hand out.
NextAdmin ==
    \/ \E i \in 0..Len(test_users), what \in {"firestore", "redis"} :
          SetupTestData(i, what)
    \/ CreateTestUsersEndpoint
    \/ \E h \in AdminHeaders : GateRequest(h, TRUE, TRUE)
    \/ \E h \in AdminHeaders : FlagLookup(h, TRUE, TRUE)
    \/ \E k \in AdminHeaders \ {None} : RevokeApiKey(k, TRUE)

SpecAdmin == InitAdmin /\ [][NextAdmin]_vars

\* The flag lists compared: all lists of UserFlag values of length at most
\* MaxHeld, in any order and with repetitions.
HeldLists == SeqUpTo(UserFlag, MaxHeld)

\* The set of the elements of a list.
Range(s) == {s[i] : i \in 1..Len(s)}

\* The policies both resolvers return for the key of u1 and for the key of
\* u2, in the same state and with no backend call failing.
ComparePrincipals ==
    /\ LET k1 == ApiKeyOf("1")
           k2 == ApiKeyOf("2")
       IN  /\ redis_client' = get_rate_limit(k2, TRUE, TRUE).redis
           /\ last' =
                 [op |-> "principals", arg |-> k1,
                  redis_up |-> TRUE, db_up |-> TRUE,
                  lower |-> [main |-> get_rate_limit(k1, TRUE, TRUE).policy,
                             rate_limit |->
                                 dynamic_rate_limit(k1, TRUE, TRUE).policy],
                  upper |-> [main |-> get_rate_limit(k2, TRUE, TRUE).policy,
                             rate_limit |->
                                 dynamic_rate_limit(k2, TRUE, TRUE).policy]]
    /\ UNCHANGED <<now, db, generated, issued, valid, revoked, client, admitted,
                   rejected, quotas, windows, guard, listing>>

\* Two principals: u1 with the key of token 1 and u2 with the key of token
\* 2, both issued for a day at time 0; u2 holds every flag u1 holds.
InitGrant ==
    /\ now = 0
    /\ redis_client =
          RedisSet(RedisSet(Empty, RedisName(ApiKeyOf("1")),
                            json_dumps([user_id |-> "u1", created_at |-> 0,
                                        expires_at |-> 1 * 24 * 60 * 60]),
                            1 * 24 * 60 * 60, 0),
                   RedisName(ApiKeyOf("2")),
                   json_dumps([user_id |-> "u2", created_at |-> 0,
                               expires_at |-> 1 * 24 * 60 * 60]),
                   1 * 24 * 60 * 60, 0)
    /\ db \in {("u1" :> [email |-> "u@example.com", flags |-> f])
                  @@ ("u2" :> [email |-> "u@example.com", flags |-> g]) :
                 <<f, g>> \in {p \in HeldLists \X HeldLists :
                                 Range(p[1]) \subseteq Range(p[2])}}
    /\ generated = {"1", "2"}
    /\ issued = {ApiKeyOf("1"), ApiKeyOf("2")}
    /\ valid = (ApiKeyOf("1") :> [user_id |-> "u1", expiry |-> 1 * 86400])
                  @@ (ApiKeyOf("2") :>
                        [user_id |-> "u2", expiry |-> 1 * 86400])
    /\ revoked = {}
    /\ client = None
    /\ admitted = 0
    /\ rejected = 0
    /\ quotas = {}
    /\ windows = 0
    /\ guard = NoGuard
    /\ listing = NoListing
    /\ last = Idle("init")

NextGrant == ComparePrincipals

SpecGrant == InitGrant /\ [][NextGrant]_vars

\* list_user_api_keys(user_id) is called: keys = [] and the scan of
\* "apikey:*" begins.  start holds the names stored at this moment.
ListStart(user_id) ==
    /\ listing.pc = "idle"
    /\ listing' = [pc |-> "scan", user_id |-> user_id,
                   start |-> DOMAIN redis_client, seen |-> {},
                   key |-> None, keys |-> {}, skipped |-> {}]
    /\ last' = Idle("list_start")
    /\ UNCHANGED <<now, redis_client, db, generated, issued, valid, revoked,
                   client, admitted, rejected, quotas, windows, guard>>

\* scan_iter yields a name that is stored now and was not yielded before.
ListScan(name) ==
    /\ listing.pc = "scan"
    /\ name \in (DOMAIN redis_client) \ listing.seen
    /\ listing' = [listing EXCEPT !.pc = "get", !.key = name,
                                  !.seen = @ \cup {name}]
    /\ last' = Idle("scan_iter")
    /\ UNCHANGED <<now, redis_client, db, generated, issued, valid, revoked,
                   client, admitted, rejected, quotas, windows, guard>>

\* The loop body runs for the name yielded; an exception ends the call.
ListGet ==
    /\ listing.pc = "get"
    /\ LET r == list_user_api_keys(listing.user_id, listing.key,
                                   listing.keys)
       IN  IF r.exc = "none"
           THEN /\ listing' =
                      [listing EXCEPT
                         !.pc = "scan", !.key = None, !.keys = r.keys,
                         !.skipped = IF r.skipped
                                     THEN @ \cup {listing.key} ELSE @]
                /\ last' = Idle("get")
           ELSE /\ listing' = NoListing
                /\ last' = [op |-> "list", arg |-> listing.user_id,
                            ret |-> {}, exc |-> r.exc,
                            start |-> listing.start,
                            skipped |-> listing.skipped]
    /\ UNCHANGED <<now, redis_client, db, generated, issued, valid, revoked,
                   client, admitted, rejected, quotas, windows, guard>>

\* The scan ends and keys is returned.  A scan yields at least every name
\* that was stored from its start to its end.
ListReturn ==
    /\ listing.pc = "scan"
    /\ (listing.start \cap DOMAIN redis_client) \subseteq listing.seen
    /\ listing' = NoListing
    /\ last' = [op |-> "list", arg |-> listing.user_id,
                ret |-> listing.keys, exc |-> "none",
                start |-> listing.start, skipped |-> listing.skipped]
    /\ UNCHANGED <<now, redis_client, db, generated, issued, valid, revoked,
                   client, admitted, rejected, quotas, windows, guard>>

\* Listings interleaved with the issue, revocation and eviction of keys.
NextList ==
    \/ \E u \in Users, tok \in Tokens : CreateApiKey(u, 1, tok, 0, TRUE)
    \/ \E k \in PresentedKeys \ {UnknownKey} : RevokeApiKey(k, TRUE)
    \/ \E k \in ApiKeys : Evict(RedisName(k))
    \/ Tick(DaySeconds)
    \/ \E u \in Users : ListStart(u)
    \/ \E k \in ApiKeys : ListScan(RedisName(k))
    \/ ListGet
    \/ ListReturn

SpecList == Init /\ [][NextList]_vars

\* The life of keys that are issued without failure: issue, validation,
\* revocation, eviction and the passing of time, for any keys.
NextLifetime ==
    \/ \E u \in Users, t \in TtlDays, tok \in Tokens :
          CreateApiKey(u, t, tok, 0, TRUE)
    \/ \E k \in PresentedKeys : ValidateApiKey(k, TRUE)
    \/ \E k \in PresentedKeys : RevokeApiKey(k, TRUE)
    \/ \E k \in ApiKeys : Evict(RedisName(k))
    \/ \E d \in {1, DaySeconds} : Tick(d)

SpecLifetime == Init /\ [][NextLifetime]_vars

-----------------------------------------------------------------------------
(* The key life cycle: claims C2, C3, C4 and C9. *)

\* The time the spec calls the expiry of a stored key, issued_at +
\* ttl_days * 86400: its created_at plus the time to live it was set with.
ExpiryOf(entry) == entry.ttl_at

\* The last operation was a validate_api_key of an issued key that returned.
ValidatedIssued ==
    /\ last.op = "validate"
    /\ last.exc = "none"
    /\ last.arg \in issued

\* C2 as stated: a validate_api_key made at now >= issued_at + t*86400
\* returns None and leaves no record of the key in the Key Store, whether
\* Redis had evicted the record before the call or not.
C2_ExpiredAtOrAfter ==
    (ValidatedIssued /\ (last.had => now >= ExpiryOf(last.entry)))
        => (last.ret = None /\ ~HasRecord(last.arg))

\* C2 amended: a validate_api_key made at now > issued_at + t*86400 returns
\* None and leaves no record of the key in the Key Store, whether Redis had
\* evicted the record before the call or not.
C2_ExpiredAfter ==
    (ValidatedIssued /\ (last.had => now > ExpiryOf(last.entry)))
        => (last.ret = None /\ ~HasRecord(last.arg))

\* The validate found the expired record still stored, and cleaned it up.
C2_Witness ==
    /\ ValidatedIssued
    /\ last.had
    /\ now > ExpiryOf(last.entry)
    /\ last.ret = None
    /\ ~HasRecord(last.arg)

\* C3: a validate_api_key of a key create_api_key returned, made before the
\* key's expiry and before any revoke of it, returns the issuing user_id,
\* whatever was done to other keys in between.
C3_RoundTrip ==
    (ValidatedIssued /\ last.arg \in DOMAIN valid)
        => last.ret = valid[last.arg].user_id

\* A key validates to its owner after another key was issued and revoked.
C3_Witness ==
    /\ ValidatedIssued
    /\ last.arg \in DOMAIN valid
    /\ last.ret = valid[last.arg].user_id
    /\ issued \cap revoked # {}

\* C4: a validate_api_key that starts after revoke_api_key(key) completed
\* returns None; and a revoke_api_key of a key with no record raises nothing
\* and leaves the Key Store as it was.
C4_Revocation ==
    [][ /\ (last'.op = "validate" /\ last'.exc = "none"
               /\ last'.arg \in revoked)
            => last'.ret = None
        /\ (last'.op = "revoke" /\ last'.exc = "none")
            => RedisName(last'.arg) \notin DOMAIN redis_client'
        /\ (last'.op = "revoke" /\ last'.exc = "none"
               /\ ~HasRecord(last'.arg))
            => redis_client' = redis_client ]_vars

\* An issued key is reported absent at time 0, long before its expiry,
\* because it was revoked.
C4_Witness ==
    /\ ValidatedIssued
    /\ last.arg \in revoked
    /\ now = 0
    /\ last.ret = None

\* C9: create_api_key returns a key only if its record was written; when
\* the write fails the call ends in HTTP 500, returns no key, and the Key
\* Store holds no record of the generated key.
C9_NoPartialIssuance ==
    last.op = "create" =>
        LET api_key == ApiKeyOf(last.token)
        IN  /\ last.ret # None =>
                /\ last.ret = api_key
                /\ HasRecord(api_key)
                /\ RecordOf(api_key).user_id = last.arg
            /\ ~HasRecord(api_key) =>
                /\ last.ret = None
                /\ last.exc = "HTTPException 500"
            /\ last.exc # "none" =>
                /\ last.exc = "HTTPException 500"
                /\ last.ret = None
                /\ ~HasRecord(api_key)

\* A create_api_key failed while an earlier key is stored.
C9_Witness ==
    /\ last.op = "create"
    /\ last.exc = "HTTPException 500"
    /\ last.ret = None
    /\ ~HasRecord(ApiKeyOf(last.token))
    /\ DOMAIN redis_client # {}

-----------------------------------------------------------------------------
(* The gate: claims C1, C5, C6, C7, C8 and C10. *)

\* The key is stored and not expired: validate_api_key returns its owner.
LiveKey(api_key) ==
    /\ api_key \notin {None, ""}
    /\ HasRecord(api_key)
    /\ now <= RecordOf(api_key).expires_at

\* The flag strings stored for the owner of a live key (none otherwise).
StoredFlags(api_key) ==
    IF LiveKey(api_key)
          /\ RecordOf(api_key).user_id \in DOMAIN db
          /\ "flags" \in DOMAIN db[RecordOf(api_key).user_id]
    THEN {db[RecordOf(api_key).user_id].flags[i] :
            i \in 1..Len(db[RecordOf(api_key).user_id].flags)}
    ELSE {}

\* The numeric quotas the spec gives the flags.
QuotaOf(flag) == IF flag = "USER" THEN 100 ELSE 2500

\* The policy the spec resolves a set F of recognised flags to.
SpecPolicy(F) ==
    IF F \cap {"ADMINISTRATOR", "SYSTEM_OPERATOR"} # {}
    THEN [kind |-> "None"]
    ELSE IF F = {}
    THEN [kind |-> "RateLimiter", times |-> 10, minutes |-> 1]
    ELSE [kind |-> "RateLimiter",
          times |-> CHOOSE q \in {QuotaOf(f) : f \in F} :
                        \A f \in F : QuotaOf(f) <= q,
          minutes |-> 1]

\* Policy p is at most as permissive as policy q.
AtMost(p, q) ==
    \/ q.kind = "None"
    \/ p.kind = "RateLimiter" /\ p.times <= q.times

\* A backend call of the last request failed: the Redis read of a presented
\* key, or the Firestore read for the owner of a live key.
LookupFailed ==
    \/ last.arg \notin {None, ""} /\ ~last.redis_up
    \/ LiveKey(last.arg) /\ last.redis_up /\ ~last.db_up

\* C1 as stated: when every request of the client in the window resolved to
\* the same finite quota Q, of its N requests exactly min(N, Q) were
\* admitted and the others refused, so never more than Q.
C1_QuotaEnforced ==
    \A p \in quotas :
        (quotas = {p} /\ p.kind = "RateLimiter") =>
            /\ admitted <= p.times
            /\ admitted = IF admitted + rejected <= p.times
                          THEN admitted + rejected
                          ELSE p.times

\* C5: with no failure, the policy of a request whose key's owner holds the
\* flags F is unlimited if F has ADMINISTRATOR or SYSTEM_OPERATOR, else a
\* 1-minute limiter of the largest numeric quota in F, of 10 for empty F.
C5_PolicyResolution ==
    (last.op = "route" /\ last.redis_up /\ last.db_up /\ LiveKey(last.arg)
        /\ StoredFlags(last.arg) \subseteq UserFlag)
        => last.policy = SpecPolicy(StoredFlags(last.arg))

\* {USER, ELEVATED_USER}, stored in one order or the other, resolved to 2500.
C5_Witness ==
    /\ last.op = "route"
    /\ LiveKey(last.arg)
    /\ StoredFlags(last.arg) = {"USER", "ELEVATED_USER"}
    /\ Len(db["u1"].flags) > 2
    /\ last.policy = [kind |-> "RateLimiter", times |-> 2500, minutes |-> 1]

C7_UnrecognizedNeverElevates ==
    (last.op = "route" /\ LiveKey(last.arg) /\ last.redis_up /\ last.db_up
        /\ ~(StoredFlags(last.arg) \subseteq UserFlag))
        => /\ AtMost(last.policy,
                     SpecPolicy(StoredFlags(last.arg) \cap UserFlag))
           /\ last.caught = "ValueError"
           /\ last.policy.kind = "RateLimiter"

\* A list mixing ADMINISTRATOR with an unknown value got the lowest tier.
C7_Witness ==
    /\ last.op = "route"
    /\ LiveKey(last.arg)
    /\ last.redis_up
    /\ last.db_up
    /\ StoredFlags(last.arg) = {"ADMINISTRATOR", "BOGUS"}
    /\ last.policy = [kind |-> "RateLimiter", times |-> 10, minutes |-> 1]

\* The flags of the request satisfy the guard's requirement.
Satisfies(held, required, any_of) ==
    IF any_of THEN required \cap held # {} ELSE required \subseteq held

\* C8: the handler behind requires_flags(required, any_of) runs only when
\* the flags held by the request's key satisfy the requirement; otherwise
\* the request ends with 403 and the handler does not run; nor does it run
\* when the key validation or the flag lookup fails.
C8_FlagGuard ==
    last.op = "guard" =>
        /\ last.ran =>
            /\ ~LookupFailed
            /\ StoredFlags(last.arg) \subseteq UserFlag
            /\ Satisfies(StoredFlags(last.arg), guard.required, guard.any_of)
            /\ last.status = 200
        /\ (~LookupFailed /\ StoredFlags(last.arg) \subseteq UserFlag
               /\ ~Satisfies(StoredFlags(last.arg), guard.required,
                             guard.any_of))
            => (last.status = 403 /\ ~last.ran)
        /\ LookupFailed => (~last.ran /\ last.status # 403)

\* A request holding one of two required flags was refused in ALL mode.
C8_Witness ==
    /\ last.op = "guard"
    /\ ~guard.any_of
    /\ guard.required = {"USER", "ADMINISTRATOR"}
    /\ StoredFlags(last.arg) = {"USER"}
    /\ ~LookupFailed
    /\ last.status = 403
    /\ ~last.ran

\* C10: a request with no X-API-Key header, or an empty one, is served; it
\* consults neither Redis nor Firestore and resolves to the policy of
\* exactly 10 requests per minute.
C10_AnonymousTier ==
    (last.op = "route" /\ last.arg \in {None, ""})
        => /\ last.status = 200
           /\ last.caught = "none"
           /\ last.calls = {}
           /\ last.policy = [kind |-> "RateLimiter", times |-> 10,
                             minutes |-> 1]

\* An anonymous request was served while both backends were down and an
\* administrator's key was stored.
C10_Witness ==
    /\ last.op = "route"
    /\ last.arg = None
    /\ ~last.redis_up
    /\ ~last.db_up
    /\ "ADMINISTRATOR" \in StoredFlags(ApiKeyOf("1"))
    /\ last.status = 200
    /\ last.calls = {}

-----------------------------------------------------------------------------
(* Lookups: claims C11, C12 and C19. *)

\* The expires_at of the record create_api_key("u1", 1) wrote at time 0.
GateKeyExpiresAt == 0 + (1 * 24 * 60 * 60)

\* The key was never issued, or it was revoked, or it expired: its
\* expires_at has passed, or Redis evicted its record on its time to live.
AbsentKey(api_key) ==
    /\ api_key \notin {None, ""}
    /\ \/ api_key \notin issued
       \/ api_key \in revoked
       \/ api_key \in issued /\ now > GateKeyExpiresAt
       \/ api_key \in issued /\ now >= GateKeyExpiresAt
             /\ ~HasRecord(api_key)

\* The policy of a request without a key.
AnonymousPolicy == read_root(None, TRUE, TRUE).policy

\* C11: for a key never issued, a revoked key and an expired key alike,
\* validate_api_key returns None, get_user_flags returns no flags without
\* reading the owner's document, and a request bearing the key is served
\* under the policy of a request with no key, 10 requests per minute.
C11_AbsentKeysAnonymous ==
    AbsentKey(last.arg) =>
        /\ last.op = "validate" => (last.ret = None /\ last.exc = "none")
        /\ last.op = "flags" =>
              /\ last.flags = <<>>
              /\ last.exc = "none"
              /\ "firestore" \notin last.calls
        /\ last.op = "route" =>
              /\ last.status = 200
              /\ last.policy = AnonymousPolicy
              /\ last.policy = [kind |-> "RateLimiter", times |-> 10,
                                minutes |-> 1]
              /\ "firestore" \notin last.calls

\* The expired key of an administrator was served as an anonymous request.
C11_Witness ==
    /\ last.op = "route"
    /\ last.arg \in issued
    /\ last.arg \notin revoked
    /\ now > GateKeyExpiresAt
    /\ "u1" \in DOMAIN db
    /\ "flags" \in DOMAIN db["u1"]
    /\ db["u1"].flags = <<"ADMINISTRATOR">>
    /\ last.policy = [kind |-> "RateLimiter", times |-> 10, minutes |-> 1]

\* The key is live and its owner has no document, or a document without
\* the flags attribute, or an empty list of flags.
MissingPrincipalData(api_key) ==
    /\ LiveKey(api_key)
    /\ \/ RecordOf(api_key).user_id \notin DOMAIN db
       \/ "flags" \notin DOMAIN db[RecordOf(api_key).user_id]
       \/ db[RecordOf(api_key).user_id].flags = <<>>

\* C12: for a live key whose owner has no document, no flags attribute or
\* an empty flag list, get_user_flags returns the empty list and raises
\* nothing, and a request bearing the key is served under the policy of 10
\* requests per minute.
C12_MissingPrincipalData ==
    (last.op \in {"flags", "route"} /\ last.redis_up /\ last.db_up
        /\ MissingPrincipalData(last.arg))
        => /\ last.op = "flags" => (last.flags = <<>> /\ last.exc = "none")
           /\ last.op = "route" =>
                 /\ last.status = 200
                 /\ last.caught = "none"
                 /\ last.policy = [kind |-> "RateLimiter", times |-> 10,
                                   minutes |-> 1]

\* get_user_flags read a document that has no flags attribute.
C12_Witness ==
    /\ last.op = "flags"
    /\ LiveKey(last.arg)
    /\ "u1" \in DOMAIN db
    /\ "flags" \notin DOMAIN db["u1"]
    /\ "firestore" \in last.calls
    /\ last.flags = <<>>
    /\ last.exc = "none"

\* C19 as stated: whenever no backend call fails, get_rate_limit and
\* dynamic_rate_limit return the same policy for the same request in the
\* same state of the key space and of the users collection.
C19_ResolversAgree ==
    last.op = "resolvers" => last.main = last.rate_limit

-----------------------------------------------------------------------------
(* The users collection: claim C13. *)

\* C13 as stated: no step of the service changes the users collection, so
\* no principal's flag set is ever written or changed.
C13_FlagsReadOnly == [][db' = db]_vars

-----------------------------------------------------------------------------
(* The stored record: claims C14 and C18. *)

\* C14 as stated: the record create_api_key has just written has
\* expires_at = created_at + ttl_days * 86400, also when the clock advanced
\* between the two readings of time.time().
C14_RecordTimestamps ==
    (last.op = "create" /\ last.ret # None) =>
        RecordOf(last.ret).expires_at =
            RecordOf(last.ret).created_at + last.days * 86400

\* C18: validate_api_key(key) leaves the Key Store as it was, or deletes
\* the record of that key and nothing else; it deletes only a record whose
\* expires_at is earlier than the current time, and then returns None; it
\* changes nothing when it returns an owner or finds no record.
C18_ValidationFrame ==
    [][ (last'.op = "validate") =>
          /\ \/ redis_client' = redis_client
             \/ /\ redis_client' =
                      RedisDelete(redis_client, RedisName(last'.arg))
                /\ HasRecord(last'.arg)
                /\ RecordOf(last'.arg).expires_at < now
                /\ last'.ret = None
          /\ last'.ret # None => redis_client' = redis_client
          /\ ~HasRecord(last'.arg) => redis_client' = redis_client
          /\ \A name \in DOMAIN redis_client' :
                /\ name \in DOMAIN redis_client
                /\ redis_client'[name] = redis_client[name] ]_vars

\* A validate deleted the expired record of its key and left the record of
\* another key in place.
C18_Witness ==
    /\ last.op = "validate"
    /\ last.had
    /\ ~HasRecord(last.arg)
    /\ \E k \in issued : k # last.arg /\ HasRecord(k)

-----------------------------------------------------------------------------
(* Flags only grant: claim C15. *)

\* C15: when every flag stored for u1 is also stored for u2, in whatever
\* order and however often, the policy resolved for u2 is at least as
\* permissive as the one resolved for u1: unlimited if u1's is unlimited,
\* else unlimited or a quota not below u1's; by either resolver.
C15_FlagsOnlyGrant ==
    (last.op = "principals"
        /\ Range(db["u1"].flags) \subseteq Range(db["u2"].flags))
        => /\ AtMost(last.lower.main, last.upper.main)
           /\ AtMost(last.lower.rate_limit, last.upper.rate_limit)

\* ELEVATED_USER alone against ELEVATED_USER followed by USER: the flag
\* added last has the lower quota and the policy stays at 2500.
C15_Witness ==
    /\ last.op = "principals"
    /\ db["u1"].flags = <<"ELEVATED_USER">>
    /\ db["u2"].flags = <<"ELEVATED_USER", "USER">>
    /\ last.lower.main = [kind |-> "RateLimiter", times |-> 2500,
                          minutes |-> 1]
    /\ last.upper.main = last.lower.main
    /\ last.upper.rate_limit = last.lower.main

-----------------------------------------------------------------------------
(* Owner listing: claim C16. *)

\* C16: a list_user_api_keys(user_id) that has returned raised nothing;
\* every item it returned carries that user_id and is the record of the
\* key it names; and every key of that user whose record was stored from
\* the start of the call to its end is among the items, whatever was
\* revoked, evicted or issued while the call ran.
C16_OwnerListing ==
    last.op = "list" =>
        /\ last.exc = "none"
        /\ \A item \in last.ret :
              /\ item.user_id = last.arg
              /\ item.key \in issued
        /\ \A name \in last.start \cap DOMAIN redis_client :
              json_loads(redis_client[name].value).user_id = last.arg
                  => \E item \in last.ret : RedisName(item.key) = name

\* A listing returned a key of the user although another name the scan had
\* yielded was deleted before its record was read.
C16_Witness ==
    /\ last.op = "list"
    /\ last.exc = "none"
    /\ last.skipped # {}
    /\ last.ret # {}
    /\ \A item \in last.ret : RedisName(item.key) \in DOMAIN redis_client

-----------------------------------------------------------------------------
(* No resurrection: claim C17. *)

\* validate_api_key has just reported the issued key absent.
ReportedAbsent(api_key) ==
    /\ last.op = "validate"
    /\ last.exc = "none"
    /\ last.arg = api_key
    /\ api_key \in issued
    /\ last.ret = None

\* validate_api_key has just returned an owner for the key.
ReportedValid(api_key) ==
    /\ last.op = "validate"
    /\ last.exc = "none"
    /\ last.arg = api_key
    /\ last.ret # None

\* C17: once validate_api_key has reported an issued key absent, no later
\* validate_api_key of that key returns an owner, whatever is issued,
\* validated, revoked or evicted in between.
C17_NoResurrection ==
    \A k \in ApiKeys : [](ReportedAbsent(k) => []~ReportedValid(k))

\* An issued key is reported absent after its revocation, its record gone,
\* while another issued key is stored.
C17_Witness ==
    /\ ReportedAbsent(last.arg)
    /\ last.arg \in revoked
    /\ ~last.had
    /\ \E k \in issued : k # last.arg /\ HasRecord(k)

====
